---- MODULE Spec2Model ----
(***************************************************************************)
(* Code-With-Us opportunity store: the versioned, status-logged database   *)
(* access layer (root rows, version rows, status/event history rows,       *)
(* addenda, proposals and the lifecycle closer), with the role-based read  *)
(* path on top of it.                                                      *)
(***************************************************************************)
EXTENDS Integers, Sequences, FiniteSets, TLC

(* ---------------------------- bounds ----------------------------------- *)
MaxOpps == 2
MaxProposals == 1
MaxClock == 3
MaxEdits == 1
MaxStatusUpdates == 1
MaxAddenda == 1
MaxProposalUpdates == 1
MaxDay == 2              \* the days a date field may hold are 1..MaxDay
MaxBudget == 2           \* the amounts a budget field may hold are 1..MaxBudget

(* ------------------------ values of the program ------------------------ *)
NULL == "NULL"
Undefined == "undefined"

Vendor == "VENDOR"
Government == "GOV"
Admin == "ADMIN"

Draft == "DRAFT"
Published == "PUBLISHED"
Evaluation == "EVALUATION"
Awarded == "AWARDED"
Suspended == "SUSPENDED"

CWUOpportunityStatus == {Draft, Published, Evaluation, Awarded, Suspended}
publicOpportunityStatuses == {Published, Evaluation, Awarded}
privateOpportunitiesStatuses == {Draft, Suspended}
CreateCWUOpportunityStatus == {Draft, Published}

Edited == "EDITED"
AddendumAdded == "ADDENDUM_ADDED"

ProposalDraft == "P_DRAFT"
Submitted == "P_SUBMITTED"
UnderReview == "P_UNDER_REVIEW"
Withdrawn == "P_WITHDRAWN"

\* the users of the system, one vendor, two public servants, one administrator
Users == {"v", "g", "a"}
UserTypeOf(u) == CASE u = "v" -> Vendor
                   [] u = "g" -> Government
                   [] u = "a" -> Admin

\* a session either carries a user or is anonymous (session.user undefined)
Sessions == Users \cup {Undefined}
sessionUserId(session) == session
sessionUserType(session) == IF session = Undefined THEN Undefined ELSE UserTypeOf(session)

\* the sessions that call the write operations, and the deadlines they enter
Creators == {"g", "a"}
Editors == {"g"}
Deadlines == {2, 3}
\* the statuses a session moves an opportunity to
StatusInputs == {Published, Suspended, Awarded}
\* the ids of the uploaded files, and an opportunity without attachments
FileIds == {"f1", "f2"}
NoAttachments == {{}}
\* the scheduled jobs that may run the sweep
Sweepers == {"job1", "job2"}
\* the requests that update a status while others are in progress
Updaters == {"req1", "req2"}

VARIABLES
  clock,                 \* the wall clock read by new Date()
  nextId,                \* generateUuid(): the next fresh identifier
  cwuOpportunities,      \* table of root records
  cwuOpportunityVersions,\* table of version rows
  cwuOpportunityStatuses,\* table of status/event history rows
  cwuOpportunityAddenda, \* table of addenda
  cwuOpportunityAttachments, \* join table between a version and a file
  files,                 \* table of file records
  cwuProposals,          \* table of proposals
  cwuProposalStatuses,   \* table of proposal status rows
  last,                  \* the last call and what it returned
  pending,               \* a read between its queries and the resolution of its ids
  sweeps,                \* the sweeps in progress: what each has queried so far
  updates,               \* the status updates in progress: what each has done so far
  state                  \* the state of the phase form component

vars == <<clock, nextId, cwuOpportunities, cwuOpportunityVersions, cwuOpportunityStatuses,
          cwuOpportunityAddenda, cwuOpportunityAttachments, files,
          cwuProposals, cwuProposalStatuses, last, pending, sweeps, updates, state>>

(* ------------------------------ helpers -------------------------------- *)
MaxOf(S) == CHOOSE x \in S : \A y \in S : y <= x

\* the ids of the opportunities in the database
OppIds == {o.id : o \in cwuOpportunities}

\* optional values (a field that may be absent / undefined)
None == {}
Some(x) == {x}

(* ------------------------------ read path ------------------------------ *)
\* mutant: the subquery without "status is not null"
maxStatusCreatedAt_AnyRow(stats, id) ==
  LET S == {s.createdAt : s \in {x \in stats : x.opportunity = id}}
  IN IF S = {} THEN None ELSE Some(MaxOf(S))

\* (select max("createdAt") from "cwuOpportunityStatuses" where opportunity = id
\*    and status is not null); the empty set when there is no such row (SQL null)
maxStatusCreatedAt(stats, id) ==
  LET S == {s.createdAt : s \in {x \in stats : x.opportunity = id /\ x.status # NULL}}
  IN IF S = {} THEN None ELSE Some(MaxOf(S))

\* (select max("createdAt") from "cwuOpportunityStatuses" where opportunity = id)
maxHistoryCreatedAt(stats, id) ==
  LET S == {s.createdAt : s \in {x \in stats : x.opportunity = id}}
  IN IF S = {} THEN None ELSE Some(MaxOf(S))

\* mutant: min("createdAt") in place of max("createdAt")
maxVersionCreatedAt_Oldest(vers, id) ==
  LET S == {v.createdAt : v \in {x \in vers : x.opportunity = id}}
  IN IF S = {} THEN None ELSE Some(CHOOSE x \in S : \A y \in S : x <= y)

\* (select max("createdAt") from "cwuOpportunityVersions" where opportunity = id)
maxVersionCreatedAt(vers, id) ==
  LET S == {v.createdAt : v \in {x \in vers : x.opportunity = id}}
  IN IF S = {} THEN None ELSE Some(MaxOf(S))

\* mutant: a Government session is shown every private opportunity
readOneVisible_NoOwnerCheck(o, s, session) ==
  IF session = Undefined \/ sessionUserType(session) = Vendor
  THEN s.status \in publicOpportunityStatuses
  ELSE s.status \in (publicOpportunityStatuses \cup privateOpportunitiesStatuses)

\* the role filter of readOneCWUOpportunity on a joined (root, status) row
readOneVisible(o, s, session) ==
  IF session = Undefined \/ sessionUserType(session) = Vendor
  THEN s.status \in publicOpportunityStatuses
  ELSE IF sessionUserType(session) = Government
  THEN \/ s.status \in publicOpportunityStatuses
       \/ (s.status \in privateOpportunitiesStatuses /\ o.createdBy = sessionUserId(session))
  ELSE s.status \in (publicOpportunityStatuses \cup privateOpportunitiesStatuses)

\* the rows of the join root x latest status x latest version, after the role filter
readOneQuery(id, session) ==
  {r \in cwuOpportunities \X cwuOpportunityStatuses \X cwuOpportunityVersions :
     /\ r[1].id = id
     /\ r[2].opportunity = r[1].id
     /\ r[2].createdAt \in maxStatusCreatedAt(cwuOpportunityStatuses, r[1].id)
     /\ r[3].opportunity = r[1].id
     /\ r[3].createdAt \in maxVersionCreatedAt(cwuOpportunityVersions, r[1].id)
     /\ readOneVisible(r[1], r[2], session)}

\* mutant: createdAt and createdBy selected from the version row
rawOf_VersionIdentity(r) ==
  [id |-> r[1].id, createdAt |-> r[3].createdAt, createdBy |-> r[3].createdBy,
   versionId |-> r[3].id, updatedAt |-> r[3].createdAt, updatedBy |-> r[3].createdBy,
   proposalDeadline |-> r[3].proposalDeadline,
   status |-> r[2].status]

\* the selected columns of a joined row
rawOf(r) ==
  [id |-> r[1].id, createdAt |-> r[1].createdAt, createdBy |-> r[1].createdBy,
   versionId |-> r[3].id, updatedAt |-> r[3].createdAt, updatedBy |-> r[3].createdBy,
   proposalDeadline |-> r[3].proposalDeadline,
   status |-> r[2].status]

\* mutant: the fields are removed for an anonymous session only
processForRole_AnonymousOnly(result, session) ==
  IF session = Undefined
  THEN [result EXCEPT !.createdBy = Undefined, !.updatedBy = Undefined]
  ELSE result

\* Remove createdBy/updatedBy for non-admin or non-author
processForRole(result, session) ==
  IF \/ session = Undefined
     \/ /\ sessionUserType(session) # Admin
        /\ sessionUserId(session) # result.createdBy
        /\ sessionUserId(session) # result.updatedBy
  THEN [result EXCEPT !.createdBy = Undefined, !.updatedBy = Undefined]
  ELSE result

\* mutant: .orderBy('createdAt', 'asc')
RECURSIVE orderByCreatedAtDesc_Asc(_)
orderByCreatedAtDesc_Asc(S) ==
  IF S = {} THEN {<<>>}
  ELSE UNION {{<<m>> \o t : t \in orderByCreatedAtDesc_Asc(S \ {m})} :
                m \in {x \in S : \A y \in S : x.createdAt <= y.createdAt}}

\* all the orders in which .orderBy('createdAt', 'desc') may return the rows S
RECURSIVE orderByCreatedAtDesc(_)
orderByCreatedAtDesc(S) ==
  IF S = {} THEN {<<>>}
  ELSE UNION {{<<m>> \o t : t \in orderByCreatedAtDesc(S \ {m})} :
                m \in {x \in S : \A y \in S : y.createdAt <= x.createdAt}}

rawCWUOpportunityHistoryRecordToCWUOpportunityHistoryRecord(raw) ==
  [id |-> raw.id, createdAt |-> raw.createdAt, createdBy |-> raw.createdBy,
   type |-> IF raw.status # NULL THEN <<"status", raw.status>> ELSE <<"event", raw.event>>]

\* the condition under which change records and reporting metrics are attached
attachHistory(result, session) ==
  sessionUserType(session) = Admin \/ result.createdBy = sessionUserId(session)

\* mutant: createdAt of the latest Published row
publishedDate_Latest(id) ==
  LET S == {s.createdAt : s \in {x \in cwuOpportunityStatuses :
                                    x.opportunity = id /\ x.status = Published}}
  IN IF S = {} THEN None ELSE Some(CHOOSE x \in S : \A y \in S : x >= y)

\* createdAt of the first Published row, if any
publishedDate(id) ==
  LET S == {s.createdAt : s \in {x \in cwuOpportunityStatuses :
                                    x.opportunity = id /\ x.status = Published}}
  IN IF S = {} THEN None ELSE Some(CHOOSE x \in S : \A y \in S : x <= y)

\* mutant: the files linked to any version
attachmentIds_AnyVersion(links, versionId) ==
  {l.file : l \in links}

\* the file ids linked to a version row
attachmentIds(links, versionId) ==
  {l.file : l \in {x \in links : x.opportunityVersion = versionId}}

\* the ids of the addenda of an opportunity
addendaIds(adds, id) == {a.id : a \in {x \in adds : x.opportunity = id}}

\* the file record of an id, none when there is no such record
readOneFileById(fs, id) == {f \in fs : f.id = id}

\* the addendum of an id, none when there is no such row
readOneCWUOpportunityAddendum(adds, id) == {a \in adds : a.id = id}

\* mutant: an id that does not resolve is left out of the result
rawCWUOpportunityToCWUOpportunity_SkipMissing(fs, adds, raw) ==
  Some([raw EXCEPT !.attachments = UNION {readOneFileById(fs, id) : id \in @},
                   !.addenda = UNION {readOneCWUOpportunityAddendum(adds, id) : id \in @}])

\* the ids of a raw result resolved into records; none when the function throws
rawCWUOpportunityToCWUOpportunity(fs, adds, raw) ==
  IF \/ \E id \in raw.attachments : readOneFileById(fs, id) = {}
     \/ \E id \in raw.addenda : readOneCWUOpportunityAddendum(adds, id) = {}
  THEN None
  ELSE Some([raw EXCEPT !.attachments = UNION {readOneFileById(fs, id) : id \in @},
                        !.addenda = UNION {readOneCWUOpportunityAddendum(adds, id) : id \in @}])

\* every raw result the queries of readOneCWUOpportunity may build for (id, session);
\* the empty set when the first query finds no row
readOneRaw(id, session) ==
  UNION {
    LET result == processForRole(rawOf(r), session)
        rows == {x \in cwuOpportunityStatuses : x.opportunity = result.id}
        histories == IF attachHistory(result, session)
                     THEN {Some([i \in DOMAIN h |->
                              rawCWUOpportunityHistoryRecordToCWUOpportunityHistoryRecord(h[i])])
                            : h \in orderByCreatedAtDesc(rows)}
                     ELSE {None}
    IN {[id |-> result.id, createdAt |-> result.createdAt, createdBy |-> result.createdBy,
         versionId |-> result.versionId,
         updatedAt |-> result.updatedAt, updatedBy |-> result.updatedBy,
         proposalDeadline |-> result.proposalDeadline,
         status |-> result.status,
         attachments |-> attachmentIds(cwuOpportunityAttachments, result.versionId),
         addenda |-> addendaIds(cwuOpportunityAddenda, id),
         publishedAt |-> publishedDate(result.id),
         successfulProponent |-> (result.status = Awarded),
         history |-> hist,
         reporting |-> (attachHistory(result, session)
                          /\ result.status \in publicOpportunityStatuses)]
          : hist \in histories}
    : r \in readOneQuery(id, session)}

\* every value readOneCWUOpportunity may return for (id, session); the empty set
\* stands for valid(null) or, when readOneInvalid holds, for an invalid result
readOneCWUOpportunity(id, session) ==
  UNION {rawCWUOpportunityToCWUOpportunity(files, cwuOpportunityAddenda, raw)
           : raw \in readOneRaw(id, session)}

\* the read throws (tryDb turns it into an invalid result)
readOneInvalid(id, session) ==
  \E raw \in readOneRaw(id, session) :
    rawCWUOpportunityToCWUOpportunity(files, cwuOpportunityAddenda, raw) = None

\* the role filter of readManyCWUOpportunities on a joined (root, status) row
readManyVisible(o, s, session) ==
  IF session = Undefined \/ sessionUserType(session) = Vendor
  THEN s.status \in publicOpportunityStatuses
  ELSE IF sessionUserType(session) = Government
  THEN \/ s.status \in publicOpportunityStatuses
       \/ (s.status \in privateOpportunitiesStatuses /\ o.createdBy = sessionUserId(session))
  ELSE TRUE

\* the rows of the listing's join: root x latest history row x latest version
readManyQuery(session) ==
  {r \in cwuOpportunities \X cwuOpportunityStatuses \X cwuOpportunityVersions :
     /\ r[2].opportunity = r[1].id
     /\ r[2].createdAt \in maxHistoryCreatedAt(cwuOpportunityStatuses, r[1].id)
     /\ r[3].opportunity = r[1].id
     /\ r[3].createdAt \in maxVersionCreatedAt(cwuOpportunityVersions, r[1].id)
     /\ readManyVisible(r[1], r[2], session)}

\* the slim entries of the listing (one per joined row)
readManyCWUOpportunities(session) ==
  {LET result == processForRole(rawOf(r), session)
   IN [id |-> result.id, createdBy |-> result.createdBy,
       createdAt |-> result.createdAt, updatedAt |-> result.updatedAt,
       updatedBy |-> result.updatedBy, proposalDeadline |-> result.proposalDeadline,
       status |-> result.status]
   : r \in readManyQuery(session)}

(* ------------------------------ write path ----------------------------- *)
\* Every operation reads the clock once (const now = new Date()) and stamps all
\* the rows it inserts with it.  Under Spec the operations run one after the
\* other and the clock has moved on when the next one starts, so two operations
\* never share a timestamp; the rows one operation inserts do.
\* what a call returned: valid(value) when ok, invalid otherwise
Returned(op, id, session, ok, value, n) ==
  [op |-> op, id |-> id, session |-> session, ok |-> ok, value |-> value, n |-> n]

\* the read-back that ends every write: readOneCWUOpportunity on the new state,
\* an invalid result when it yields null
ReadBack(op, id, session) ==
  \/ /\ readOneCWUOpportunity(id, session)' = {}
     /\ last' = Returned(op, id, session, FALSE, None, 0)
  \/ \E r \in readOneCWUOpportunity(id, session)' :
       last' = Returned(op, id, session, TRUE, Some(r), 0)

\* one link row per attachment, for the version row oppVersionId
createCWUOpportunityAttachments(oppVersionId, attachments) ==
  {[opportunityVersion |-> oppVersionId, file |-> file] : file \in attachments}

createCWUOpportunity(session, status, proposalDeadline, attachments) ==
  \E rootId \in {nextId} :
  LET now == clock
  IN /\ clock <= MaxClock
     /\ Cardinality(cwuOpportunities) < MaxOpps
     /\ clock' = clock + 1
     /\ nextId' = nextId + 3
     /\ cwuOpportunities' = cwuOpportunities \cup
          {[id |-> rootId, createdAt |-> now, createdBy |-> sessionUserId(session)]}
     /\ cwuOpportunityVersions' = cwuOpportunityVersions \cup
          {[id |-> nextId + 1, opportunity |-> rootId, createdAt |-> now,
            createdBy |-> sessionUserId(session),
            proposalDeadline |-> proposalDeadline]}
     /\ cwuOpportunityStatuses' = cwuOpportunityStatuses \cup
          {[id |-> nextId + 2, opportunity |-> rootId, createdAt |-> now,
            createdBy |-> sessionUserId(session), status |-> status, event |-> NULL]}
     /\ cwuOpportunityAttachments' = cwuOpportunityAttachments \cup
          createCWUOpportunityAttachments(nextId + 1, attachments)
     /\ UNCHANGED <<cwuOpportunityAddenda, cwuProposals, cwuProposalStatuses,
                    files, pending, sweeps, updates, state>>
     /\ ReadBack("createCWUOpportunity", rootId, session)

updateCWUOpportunityVersion(id, session, proposalDeadline, attachments) ==
  LET now == clock
  IN /\ clock <= MaxClock
     /\ id \in OppIds
     /\ Cardinality(cwuOpportunityVersions) < MaxOpps + MaxEdits
     /\ clock' = clock + 1
     /\ nextId' = nextId + 2
     /\ cwuOpportunityVersions' = cwuOpportunityVersions \cup
          {[id |-> nextId, opportunity |-> id, createdAt |-> now,
            createdBy |-> sessionUserId(session),
            proposalDeadline |-> proposalDeadline]}
     /\ cwuOpportunityStatuses' = cwuOpportunityStatuses \cup
          {[id |-> nextId + 1, opportunity |-> id, createdAt |-> now,
            createdBy |-> sessionUserId(session), status |-> NULL, event |-> Edited]}
     /\ cwuOpportunityAttachments' = cwuOpportunityAttachments \cup
          createCWUOpportunityAttachments(nextId, attachments)
     /\ UNCHANGED <<cwuOpportunities, cwuOpportunityAddenda, cwuProposals, cwuProposalStatuses,
                    files, pending, sweeps, updates, state>>
     /\ ReadBack("updateCWUOpportunityVersion", id, session)

updateCWUOpportunityStatus(id, status, session) ==
  LET now == clock
  IN /\ clock <= MaxClock
     /\ id \in OppIds
     /\ Cardinality({s \in cwuOpportunityStatuses : s.status # NULL /\ s.createdBy # NULL})
          < MaxOpps + MaxStatusUpdates
     /\ clock' = clock + 1
     /\ nextId' = nextId + 1
     /\ cwuOpportunityStatuses' = cwuOpportunityStatuses \cup
          {[id |-> nextId, opportunity |-> id, createdAt |-> now,
            createdBy |-> sessionUserId(session), status |-> status, event |-> NULL]}
     /\ UNCHANGED <<cwuOpportunities, cwuOpportunityVersions, cwuOpportunityAddenda,
                    cwuOpportunityAttachments, files, cwuProposals, cwuProposalStatuses,
                    pending, sweeps, updates, state>>
     /\ ReadBack("updateCWUOpportunityStatus", id, session)

addCWUOpportunityAddendum(id, addendumText, session) ==
  LET now == clock
  IN /\ clock <= MaxClock
     /\ id \in OppIds
     /\ Cardinality(cwuOpportunityAddenda) < MaxAddenda
     /\ clock' = clock + 1
     /\ nextId' = nextId + 2
     /\ cwuOpportunityAddenda' = cwuOpportunityAddenda \cup
          {[id |-> nextId, opportunity |-> id, description |-> addendumText,
            createdBy |-> sessionUserId(session), createdAt |-> now]}
     /\ cwuOpportunityStatuses' = cwuOpportunityStatuses \cup
          {[id |-> nextId + 1, opportunity |-> id, createdAt |-> now,
            createdBy |-> sessionUserId(session), status |-> NULL, event |-> AddendumAdded]}
     /\ UNCHANGED <<cwuOpportunities, cwuOpportunityVersions, cwuOpportunityAttachments, files,
                    cwuProposals, cwuProposalStatuses, pending, sweeps, updates, state>>
     /\ ReadBack("addCWUOpportunityAddendum", id, session)

\* mutant: the delete without its where clause
deleteCWUOpportunity_AllRows(id) ==
  /\ clock <= MaxClock
  /\ clock' = clock + 1
  /\ UNCHANGED <<nextId, files, cwuProposals, cwuProposalStatuses, pending, sweeps, updates, state>>
  /\ IF cwuOpportunities = {}
     THEN /\ UNCHANGED <<cwuOpportunities, cwuOpportunityVersions, cwuOpportunityStatuses,
                         cwuOpportunityAddenda, cwuOpportunityAttachments>>
          /\ last' = Returned("deleteCWUOpportunity", id, Undefined, FALSE, None, 0)
     ELSE /\ cwuOpportunities' = {}
          /\ cwuOpportunityVersions' = {}
          /\ cwuOpportunityStatuses' = {}
          /\ cwuOpportunityAddenda' = {}
          /\ cwuOpportunityAttachments' = {}
          /\ \E o \in cwuOpportunities :
               last' = Returned("deleteCWUOpportunity", id, Undefined, TRUE,
                                {[o EXCEPT !.createdBy = Undefined]}, 0)

\* Delete root record - cascade relationships in database will cleanup
\* versions/attachments/addenda automatically; an error when there is no such row
deleteCWUOpportunity(id) ==
  LET result == {o \in cwuOpportunities : o.id = id}
      versionIds == {v.id : v \in {x \in cwuOpportunityVersions : x.opportunity = id}}
  IN /\ clock <= MaxClock
     /\ clock' = clock + 1
     /\ UNCHANGED <<nextId, files, cwuProposals, cwuProposalStatuses, pending, sweeps, updates, state>>
     /\ IF result = {}
        THEN /\ UNCHANGED <<cwuOpportunities, cwuOpportunityVersions, cwuOpportunityStatuses,
                            cwuOpportunityAddenda, cwuOpportunityAttachments>>
             /\ last' = Returned("deleteCWUOpportunity", id, Undefined, FALSE, None, 0)
        ELSE /\ cwuOpportunities' = cwuOpportunities \ result
             /\ cwuOpportunityVersions' = {v \in cwuOpportunityVersions : v.opportunity # id}
             /\ cwuOpportunityStatuses' = {x \in cwuOpportunityStatuses : x.opportunity # id}
             /\ cwuOpportunityAddenda' = {a \in cwuOpportunityAddenda : a.opportunity # id}
             /\ cwuOpportunityAttachments' =
                  {l \in cwuOpportunityAttachments : l.opportunityVersion \notin versionIds}
             /\ last' = Returned("deleteCWUOpportunity", id, Undefined, TRUE,
                           {[o EXCEPT !.createdBy = Undefined] : o \in result}, 0)

\* a file record goes missing while links to it may remain
removeFile(file) ==
  /\ clock <= MaxClock
  /\ \E f \in files : f.id = file
  /\ clock' = clock + 1
  /\ files' = {f \in files : f.id # file}
  /\ UNCHANGED <<nextId, cwuOpportunities, cwuOpportunityVersions,
                 cwuOpportunityStatuses, cwuOpportunityAddenda, cwuOpportunityAttachments,
                 cwuProposals, cwuProposalStatuses, last, pending, sweeps, updates, state>>

\* readOneCWUOpportunity is a series of queries outside any transaction: first the
\* joined row and the ids of the attachments and addenda (and the history) ...
readOneBegin(id, session) ==
  /\ pending = None
  /\ UNCHANGED <<clock, nextId, cwuOpportunities, cwuOpportunityVersions,
                 cwuOpportunityStatuses, cwuOpportunityAddenda, cwuOpportunityAttachments,
                 files, cwuProposals, cwuProposalStatuses, sweeps, updates, state>>
  /\ IF readOneRaw(id, session) = {}
     THEN /\ last # Returned("readOneCWUOpportunity", id, session, TRUE, None, 0)
          /\ last' = Returned("readOneCWUOpportunity", id, session, TRUE, None, 0)
          /\ pending' = None
     ELSE /\ \E raw \in readOneRaw(id, session) :
               pending' = Some([id |-> id, session |-> session, raw |-> raw])
          /\ last' = last

\* ... then the records of those ids, as the tables are by then
readOneEnd ==
  /\ \E p \in pending :
       LET result == rawCWUOpportunityToCWUOpportunity(files, cwuOpportunityAddenda, p.raw)
       IN last' = Returned("readOneCWUOpportunity", p.id, p.session, result # None, result, 0)
  /\ pending' = None
  /\ UNCHANGED <<clock, nextId, cwuOpportunities, cwuOpportunityVersions,
                 cwuOpportunityStatuses, cwuOpportunityAddenda, cwuOpportunityAttachments,
                 files, cwuProposals, cwuProposalStatuses, sweeps, updates, state>>

(* ------------------------------ proposals ------------------------------ *)
\* a proposal is submitted to an opportunity, with its first status row
createCWUProposal(opportunity, status) ==
  LET now == clock
  IN /\ clock <= MaxClock
     /\ opportunity \in OppIds
     /\ Cardinality(cwuProposals) < MaxProposals
     /\ clock' = clock + 1
     /\ nextId' = nextId + 2
     /\ cwuProposals' = cwuProposals \cup {[id |-> nextId, opportunity |-> opportunity]}
     /\ cwuProposalStatuses' = cwuProposalStatuses \cup
          {[id |-> nextId + 1, proposal |-> nextId, createdAt |-> now, status |-> status]}
     /\ UNCHANGED <<cwuOpportunities, cwuOpportunityVersions, cwuOpportunityStatuses,
                    cwuOpportunityAddenda, cwuOpportunityAttachments, files, pending, sweeps, updates, state>>
     /\ last' = Returned("createCWUProposal", nextId, Undefined, TRUE, None, 0)

\* a proposal's log gets a status row, or an event row (status null)
updateCWUProposalStatus(proposal, status) ==
  LET now == clock
  IN /\ clock <= MaxClock
     /\ proposal \in {p.id : p \in cwuProposals}
     /\ Cardinality(cwuProposalStatuses) < MaxProposals + MaxProposalUpdates
     /\ clock' = clock + 1
     /\ nextId' = nextId + 1
     /\ cwuProposalStatuses' = cwuProposalStatuses \cup
          {[id |-> nextId, proposal |-> proposal, createdAt |-> now, status |-> status]}
     /\ UNCHANGED <<cwuOpportunities, cwuOpportunityVersions, cwuOpportunityStatuses,
                    cwuOpportunityAddenda, cwuOpportunityAttachments, files, cwuProposals,
                    pending, sweeps, updates, state>>
     /\ last' = Returned("updateCWUProposalStatus", proposal, Undefined, TRUE, None, 0)

(* --------------------------- lifecycle closer -------------------------- *)
\* the rows a query returns, in some order
RECURSIVE SeqOfSet(_)
SeqOfSet(S) ==
  IF S = {} THEN <<>>
  ELSE LET x == CHOOSE y \in S : TRUE IN <<x>> \o SeqOfSet(S \ {x})

\* mutant: the deadline compared with '<' in place of '<='
lapsedRows_StrictlyBefore(opps, stats, vers, now) ==
  {r \in opps \X stats \X vers :
     /\ r[2].opportunity = r[1].id
     /\ r[2].createdAt \in maxStatusCreatedAt(stats, r[1].id)
     /\ r[3].opportunity = r[1].id
     /\ r[3].createdAt \in maxVersionCreatedAt(vers, r[1].id)
     /\ r[2].status = Published
     /\ r[3].proposalDeadline < now}

\* mutant: any Published row of the log, not the latest status row
lapsedRows_EverPublished(opps, stats, vers, now) ==
  {r \in opps \X stats \X vers :
     /\ r[2].opportunity = r[1].id
     /\ r[2].createdAt \in {s.createdAt : s \in {x \in stats : x.opportunity = r[1].id
                                                            /\ x.status = Published}}
     /\ r[3].opportunity = r[1].id
     /\ r[3].createdAt \in maxVersionCreatedAt(vers, r[1].id)
     /\ r[2].status = Published
     /\ r[3].proposalDeadline <= now}

\* the joined rows of the closer's query: root x latest status x latest version,
\* where the status is Published and the deadline has passed
lapsedRows(opps, stats, vers, now) ==
  {r \in opps \X stats \X vers :
     /\ r[2].opportunity = r[1].id
     /\ r[2].createdAt \in maxStatusCreatedAt(stats, r[1].id)
     /\ r[3].opportunity = r[1].id
     /\ r[3].createdAt \in maxVersionCreatedAt(vers, r[1].id)
     /\ r[2].status = Published
     /\ r[3].proposalDeadline <= now}

\* one opportunity id per joined row
lapsedOpportunitiesIds(opps, stats, vers, now) ==
  LET rows == SeqOfSet(lapsedRows(opps, stats, vers, now))
  IN [i \in DOMAIN rows |-> rows[i][1].id]

\* (select max("createdAt") from "cwuProposalStatuses" where proposal = p
\*    and status is not null)
maxProposalStatusCreatedAt(pstats, proposal) ==
  LET S == {s.createdAt : s \in {x \in pstats : x.proposal = proposal /\ x.status # NULL}}
  IN IF S = {} THEN None ELSE Some(MaxOf(S))

\* mutant: the latest status row of the proposal, whatever its status
submittedRows_AnyStatus(props, pstats, opportunity) ==
  {r \in props \X pstats :
     /\ r[2].proposal = r[1].id
     /\ r[2].status # NULL
     /\ r[2].createdAt \in maxProposalStatusCreatedAt(pstats, r[1].id)
     /\ r[1].opportunity = opportunity}

\* the joined rows of the SUBMITTED proposals of an opportunity
submittedRows(props, pstats, opportunity) ==
  {r \in props \X pstats :
     /\ r[2].proposal = r[1].id
     /\ r[2].status # NULL
     /\ r[2].createdAt \in maxProposalStatusCreatedAt(pstats, r[1].id)
     /\ r[1].opportunity = opportunity
     /\ r[2].status = Submitted}

proposalIds(props, pstats, opportunity) ==
  LET rows == SeqOfSet(submittedRows(props, pstats, opportunity))
  IN [i \in DOMAIN rows |-> rows[i][1].id]

\* the inner loop: one UNDER_REVIEW row per listed proposal
RECURSIVE reviewProposals(_, _, _)
reviewProposals(db, ids, now) ==
  IF ids = <<>> THEN db
  ELSE reviewProposals(
         [db EXCEPT !.pstats = @ \cup {[id |-> db.nid, proposal |-> Head(ids),
                                          createdAt |-> now, status |-> UnderReview]},
                    !.nid = @ + 1],
         Tail(ids), now)

\* one iteration of the outer loop
closeOne(db, props, lapsedOpportunityId, now) ==
  LET db1 == [db EXCEPT !.stats = @ \cup {[id |-> db.nid, opportunity |-> lapsedOpportunityId,
                                            createdAt |-> now, createdBy |-> NULL,
                                            status |-> Evaluation, event |-> NULL]},
                        !.nid = @ + 1]
  IN reviewProposals(db1, proposalIds(props, db1.pstats, lapsedOpportunityId), now)

RECURSIVE closeAll(_, _, _, _)
closeAll(db, props, ids, now) ==
  IF ids = <<>> THEN db
  ELSE closeAll(closeOne(db, props, Head(ids), now), props, Tail(ids), now)

closeCWUOpportunities ==
  LET now == clock
      ids == lapsedOpportunitiesIds(cwuOpportunities, cwuOpportunityStatuses,
                                    cwuOpportunityVersions, now)
      db == closeAll([stats |-> cwuOpportunityStatuses, pstats |-> cwuProposalStatuses,
                      nid |-> nextId], cwuProposals, ids, now)
  IN /\ clock <= MaxClock
     /\ clock' = clock + 1
     /\ nextId' = db.nid
     /\ cwuOpportunityStatuses' = db.stats
     /\ cwuProposalStatuses' = db.pstats
     /\ UNCHANGED <<cwuOpportunities, cwuOpportunityVersions, cwuOpportunityAddenda,
                    cwuOpportunityAttachments, files, cwuProposals, pending, sweeps, updates, state>>
     /\ last' = Returned("closeCWUOpportunities", 0, Undefined, TRUE, None, Len(ids))

(* --------------------------- overlapping sweeps ------------------------ *)
\* A sweep is a transaction of several statements; another transaction may
\* commit between any two of them.  Each statement reads what is committed by
\* then and what the sweep itself has inserted; the rows the sweep inserts are
\* held back until it commits.
\* const now = new Date(), and the query for the lapsed opportunities
sweepBegin(p) ==
  LET now == clock
      ids == lapsedOpportunitiesIds(cwuOpportunities, cwuOpportunityStatuses,
                                    cwuOpportunityVersions, now)
  IN /\ clock <= MaxClock
     /\ sweeps[p] = None
     /\ clock' = clock + 1
     /\ sweeps' = [sweeps EXCEPT ![p] = Some([now |-> now, ids |-> ids, n |-> Len(ids),
                                              stats |-> {}, pstats |-> {}])]
     /\ UNCHANGED <<nextId, cwuOpportunities, cwuOpportunityVersions,
                    cwuOpportunityStatuses, cwuOpportunityAddenda, cwuOpportunityAttachments,
                    files, cwuProposals, cwuProposalStatuses, last, pending, updates, state>>

\* one iteration of the loop over the lapsed opportunities
sweepOne(p) ==
  \E s \in sweeps[p] :
    /\ s.ids # <<>>
    /\ LET db == closeOne([stats |-> cwuOpportunityStatuses \cup s.stats,
                           pstats |-> cwuProposalStatuses \cup s.pstats,
                           nid |-> nextId],
                          cwuProposals, Head(s.ids), s.now)
       IN /\ nextId' = db.nid
          /\ sweeps' = [sweeps EXCEPT ![p] =
                          Some([s EXCEPT !.ids = Tail(s.ids),
                                         !.stats = db.stats \ cwuOpportunityStatuses,
                                         !.pstats = db.pstats \ cwuProposalStatuses])]
    /\ UNCHANGED <<clock, cwuOpportunities, cwuOpportunityVersions,
                   cwuOpportunityStatuses, cwuOpportunityAddenda, cwuOpportunityAttachments,
                   files, cwuProposals, cwuProposalStatuses, last, pending, updates, state>>

\* the end of the loop: the transaction commits and the call returns
sweepCommit(p) ==
  \E s \in sweeps[p] :
    /\ s.ids = <<>>
    /\ cwuOpportunityStatuses' = cwuOpportunityStatuses \cup s.stats
    /\ cwuProposalStatuses' = cwuProposalStatuses \cup s.pstats
    /\ sweeps' = [sweeps EXCEPT ![p] = None]
    /\ last' = Returned("closeCWUOpportunities", 0, Undefined, TRUE, None, s.n)
    /\ UNCHANGED <<clock, nextId, cwuOpportunities, cwuOpportunityVersions,
                   cwuOpportunityAddenda, cwuOpportunityAttachments, files, cwuProposals,
                   pending, updates, state>>

(* ----------------------- overlapping status updates ------------------- *)
\* updateCWUOpportunityStatus runs on the plain connection: its insert and the
\* queries of its read-back are separate statements, and other requests and the
\* sweep may run between any two of them.
\* const now = new Date(); the next reading of the clock, by whichever request,
\* is of the same instant or of a later one
updateStatusBegin(p, id, status, session) ==
  LET now == clock
  IN /\ clock <= MaxClock
     /\ id \in OppIds
     /\ updates[p] = None
     /\ clock' \in {clock, clock + 1}
     /\ updates' = [updates EXCEPT ![p] = Some([id |-> id, status |-> status,
                                                session |-> session, now |-> now,
                                                pc |-> "insert", ok |-> FALSE,
                                                value |-> None])]
     /\ UNCHANGED <<nextId, cwuOpportunities, cwuOpportunityVersions,
                    cwuOpportunityStatuses, cwuOpportunityAddenda, cwuOpportunityAttachments,
                    files, cwuProposals, cwuProposalStatuses, last, pending, sweeps, state>>

\* the insert of the status row, stamped with the time taken at the start
updateStatusInsert(p) ==
  \E u \in updates[p] :
    /\ u.pc = "insert"
    /\ nextId' = nextId + 1
    /\ cwuOpportunityStatuses' = cwuOpportunityStatuses \cup
         {[id |-> nextId, opportunity |-> u.id, createdAt |-> u.now,
           createdBy |-> sessionUserId(u.session), status |-> u.status, event |-> NULL]}
    /\ updates' = [updates EXCEPT ![p] = Some([u EXCEPT !.pc = "read"])]
    /\ UNCHANGED <<clock, cwuOpportunities, cwuOpportunityVersions, cwuOpportunityAddenda,
                   cwuOpportunityAttachments, files, cwuProposals, cwuProposalStatuses,
                   last, pending, sweeps, state>>

\* the read-back, on the tables as they are by then, and the return
updateStatusReadBack(p) ==
  \E u \in updates[p] :
    /\ u.pc = "read"
    /\ \/ /\ readOneCWUOpportunity(u.id, u.session) = {}
          /\ updates' = [updates EXCEPT ![p] = Some([u EXCEPT !.pc = "done"])]
          /\ last' = Returned("updateCWUOpportunityStatus", u.id, u.session, FALSE, None, 0)
       \/ \E r \in readOneCWUOpportunity(u.id, u.session) :
            /\ updates' = [updates EXCEPT ![p] =
                             Some([u EXCEPT !.pc = "done", !.ok = TRUE, !.value = Some(r)])]
            /\ last' = Returned("updateCWUOpportunityStatus", u.id, u.session, TRUE,
                                Some(r), 0)
    /\ UNCHANGED <<clock, nextId, cwuOpportunities, cwuOpportunityVersions,
                   cwuOpportunityStatuses, cwuOpportunityAddenda, cwuOpportunityAttachments,
                   files, cwuProposals, cwuProposalStatuses, pending, sweeps, state>>

(* ------------------------- failures and rollback ---------------------- *)
\* A write is a list of insert statements issued in program order inside the
\* callback of connection.transaction; trx tells whether the statement is issued
\* with .transacting(trx).  When statement k throws, or the commit fails
\* (k = number of statements + 1), the transaction is rolled back: of the
\* statements 1..k-1 that were executed, those outside the transaction stay.
Statement(stmt, trx, arg) == [stmt |-> stmt, trx |-> trx, arg |-> arg]

survivorsAt(statements, k) ==
  {j \in 1..(k - 1) : j <= Len(statements) /\ ~statements[j].trx}

survivors(statements, k) == {statements[i] : i \in survivorsAt(statements, k)}

\* the points at which a write may fail: each statement, and the commit
FailurePoints(statements) == 1..(Len(statements) + 1)

\* one insert per attachment, in the order of the list
attachmentStatements(attachments) ==
  LET fs == SeqOfSet(attachments)
  IN [i \in DOMAIN fs |-> Statement("attachment", TRUE, fs[i])]

\* mutant: the status row inserted without .transacting(trx)
createCWUOpportunityStatements_StatusOutside(attachments) ==
  <<Statement("root", TRUE, NULL), Statement("version", TRUE, NULL),
    Statement("status", FALSE, NULL)>> \o attachmentStatements(attachments)

createCWUOpportunityStatements(attachments) ==
  <<Statement("root", TRUE, NULL), Statement("version", TRUE, NULL),
    Statement("status", TRUE, NULL)>> \o attachmentStatements(attachments)

\* createCWUOpportunity when statement k throws or the commit fails
createCWUOpportunityFails(session, status, proposalDeadline, attachments, k) ==
  LET now == clock
      rootId == nextId
      kept == survivors(createCWUOpportunityStatements(attachments), k)
      did(stmt) == \E x \in kept : x.stmt = stmt
  IN /\ clock <= MaxClock
     /\ Cardinality(cwuOpportunities) < MaxOpps
     /\ k \in FailurePoints(createCWUOpportunityStatements(attachments))
     /\ clock' = clock + 1
     /\ nextId' = nextId + 3
     /\ cwuOpportunities' = cwuOpportunities \cup
          (IF did("root")
           THEN {[id |-> rootId, createdAt |-> now, createdBy |-> sessionUserId(session)]}
           ELSE {})
     /\ cwuOpportunityVersions' = cwuOpportunityVersions \cup
          (IF did("version")
           THEN {[id |-> nextId + 1, opportunity |-> rootId, createdAt |-> now,
                  createdBy |-> sessionUserId(session),
                  proposalDeadline |-> proposalDeadline]}
           ELSE {})
     /\ cwuOpportunityStatuses' = cwuOpportunityStatuses \cup
          (IF did("status")
           THEN {[id |-> nextId + 2, opportunity |-> rootId, createdAt |-> now,
                  createdBy |-> sessionUserId(session), status |-> status, event |-> NULL]}
           ELSE {})
     /\ cwuOpportunityAttachments' = cwuOpportunityAttachments \cup
          createCWUOpportunityAttachments(nextId + 1,
            {x.arg : x \in {y \in kept : y.stmt = "attachment"}})
     /\ UNCHANGED <<cwuOpportunityAddenda, cwuProposals, cwuProposalStatuses,
                    files, pending, sweeps, updates, state>>
     /\ last' = Returned("createCWUOpportunity", rootId, session, FALSE, None, k)

\* the 'edit' change record is inserted without .transacting(trx)
updateCWUOpportunityVersionStatements(attachments) ==
  <<Statement("version", TRUE, NULL)>> \o attachmentStatements(attachments)
    \o <<Statement("edited", FALSE, NULL)>>

\* updateCWUOpportunityVersion when statement k throws or the commit fails
updateCWUOpportunityVersionFails(id, session, proposalDeadline, attachments, k) ==
  LET now == clock
      kept == survivors(updateCWUOpportunityVersionStatements(attachments), k)
      did(stmt) == \E x \in kept : x.stmt = stmt
  IN /\ clock <= MaxClock
     /\ id \in OppIds
     /\ k \in FailurePoints(updateCWUOpportunityVersionStatements(attachments))
     /\ clock' = clock + 1
     /\ nextId' = nextId + 2
     /\ cwuOpportunityVersions' = cwuOpportunityVersions \cup
          (IF did("version")
           THEN {[id |-> nextId, opportunity |-> id, createdAt |-> now,
                  createdBy |-> sessionUserId(session),
                  proposalDeadline |-> proposalDeadline]}
           ELSE {})
     /\ cwuOpportunityAttachments' = cwuOpportunityAttachments \cup
          createCWUOpportunityAttachments(nextId,
            {x.arg : x \in {y \in kept : y.stmt = "attachment"}})
     /\ cwuOpportunityStatuses' = cwuOpportunityStatuses \cup
          (IF did("edited")
           THEN {[id |-> nextId + 1, opportunity |-> id, createdAt |-> now,
                  createdBy |-> sessionUserId(session), status |-> NULL, event |-> Edited]}
           ELSE {})
     /\ UNCHANGED <<cwuOpportunities, cwuOpportunityAddenda, cwuProposals, cwuProposalStatuses,
                    files, pending, sweeps, updates, state>>
     /\ last' = Returned("updateCWUOpportunityVersion", id, session, FALSE, None, k)

\* mutant: the history row inserted without .transacting(trx)
addCWUOpportunityAddendumStatements_HistoryOutside ==
  <<Statement("addendum", TRUE, NULL), Statement("history", FALSE, NULL)>>

addCWUOpportunityAddendumStatements ==
  <<Statement("addendum", TRUE, NULL), Statement("history", TRUE, NULL)>>

\* addCWUOpportunityAddendum when statement k throws or the commit fails
addCWUOpportunityAddendumFails(id, addendumText, session, k) ==
  LET now == clock
      kept == survivors(addCWUOpportunityAddendumStatements, k)
      did(stmt) == \E x \in kept : x.stmt = stmt
  IN /\ clock <= MaxClock
     /\ id \in OppIds
     /\ k \in FailurePoints(addCWUOpportunityAddendumStatements)
     /\ clock' = clock + 1
     /\ nextId' = nextId + 2
     /\ cwuOpportunityAddenda' = cwuOpportunityAddenda \cup
          (IF did("addendum")
           THEN {[id |-> nextId, opportunity |-> id, description |-> addendumText,
                  createdBy |-> sessionUserId(session), createdAt |-> now]}
           ELSE {})
     /\ cwuOpportunityStatuses' = cwuOpportunityStatuses \cup
          (IF did("history")
           THEN {[id |-> nextId + 1, opportunity |-> id, createdAt |-> now,
                  createdBy |-> sessionUserId(session), status |-> NULL,
                  event |-> AddendumAdded]}
           ELSE {})
     /\ UNCHANGED <<cwuOpportunities, cwuOpportunityVersions, cwuOpportunityAttachments, files,
                    cwuProposals, cwuProposalStatuses, pending, sweeps, updates, state>>
     /\ last' = Returned("addCWUOpportunityAddendum", id, session, FALSE, None, k)

\* mutant: the Evaluation rows inserted without .transacting(trx)
RECURSIVE closeCWUOpportunitiesStatements_EvaluationOutside(_, _, _)
closeCWUOpportunitiesStatements_EvaluationOutside(ids, props, pstats) ==
  IF ids = <<>> THEN <<>>
  ELSE LET pids == proposalIds(props, pstats, Head(ids))
       IN <<Statement("evaluation", FALSE, Head(ids))>>
            \o [i \in DOMAIN pids |-> Statement("underReview", TRUE, pids[i])]
            \o closeCWUOpportunitiesStatements_EvaluationOutside(Tail(ids), props, pstats)

\* the inserts of a sweep over the lapsed opportunities ids: per opportunity its
\* Evaluation row, then one UnderReview row per submitted proposal, all of them
\* in the one transaction that wraps the sweep
RECURSIVE closeCWUOpportunitiesStatements(_, _, _)
closeCWUOpportunitiesStatements(ids, props, pstats) ==
  IF ids = <<>> THEN <<>>
  ELSE LET pids == proposalIds(props, pstats, Head(ids))
       IN <<Statement("evaluation", TRUE, Head(ids))>>
            \o [i \in DOMAIN pids |-> Statement("underReview", TRUE, pids[i])]
            \o closeCWUOpportunitiesStatements(Tail(ids), props, pstats)

\* closeCWUOpportunities when statement k throws or the commit fails; the call
\* is invalid, n records how many opportunities the loop had completed by then
closeCWUOpportunitiesFails(k) ==
  LET now == clock
      ids == lapsedOpportunitiesIds(cwuOpportunities, cwuOpportunityStatuses,
                                    cwuOpportunityVersions, now)
      statements == closeCWUOpportunitiesStatements(ids, cwuProposals, cwuProposalStatuses)
      kept == survivorsAt(statements, k)
      started == Cardinality({j \in 1..k : j <= Len(statements)
                                            /\ statements[j].stmt = "evaluation"})
      completed == IF k > Len(statements) THEN Len(ids) ELSE started - 1
  IN /\ clock <= MaxClock
     /\ k \in FailurePoints(statements)
     /\ clock' = clock + 1
     /\ nextId' = nextId + Len(statements)
     /\ cwuOpportunityStatuses' = cwuOpportunityStatuses \cup
          {[id |-> nextId + j - 1, opportunity |-> statements[j].arg, createdAt |-> now,
            createdBy |-> NULL, status |-> Evaluation, event |-> NULL]
             : j \in {i \in kept : statements[i].stmt = "evaluation"}}
     /\ cwuProposalStatuses' = cwuProposalStatuses \cup
          {[id |-> nextId + j - 1, proposal |-> statements[j].arg, createdAt |-> now,
            status |-> UnderReview]
             : j \in {i \in kept : statements[i].stmt = "underReview"}}
     /\ UNCHANGED <<cwuOpportunities, cwuOpportunityVersions, cwuOpportunityAddenda,
                    cwuOpportunityAttachments, files, cwuProposals, pending, sweeps, updates, state>>
     /\ last' = Returned("closeCWUOpportunities", 0, Undefined, FALSE, None, completed)

(* -------------------------- phase form component ----------------------- *)
\* The form of one phase of a Sprint With Us opportunity: three fields and a
\* list of capabilities.  A date is a day number; an optional value is None or
\* Some(x).
\* the capabilities a phase may require, in the order of the form
CAPABILITIES == <<"Agile Coaching", "Backend Development">>
Days == 1..MaxDay
Budgets == 1..MaxBudget
\* the index the view gives to each capability (from 0)
Indexes == 0..(Len(CAPABILITIES) - 1)

adt(tag, value) == [tag |-> tag, value |-> value]

\* the errors of a validation result
getInvalidValue(valid) == IF valid THEN {} ELSE {"invalid"}

\* Params.validateStartDate: a date must have been entered
validateStartDate(raw) == raw # None

\* Params.validateCompletionDate: a date, not before the start date if there is one
validateCompletionDate(raw, startDate) ==
  raw # None /\ \A d \in raw, s \in startDate : d >= s

\* the validator of the max budget field
validateMaxBudget(v, totalMaxBudget) ==
  IF v = None THEN FALSE
  ELSE \A b \in v, t \in totalMaxBudget : b <= t

\* DateField.dateToValue and DateField.getDate: between a date and the value of
\* a date field
dateToValue(date) == date
getDate(s) == s.value

\* FormField.setValidate: installs a validator, and validates with it if asked to
setValidate(s, validate, valid, runValidation) ==
  [s EXCEPT !.validate = validate,
            !.errors = IF runValidation THEN getInvalidValue(valid) ELSE @]

\* the update of a form field: a new value, or the validation of the value
\* with the validator in place
fieldUpdate(s, msg, valid) ==
  IF msg.tag = "onChange" THEN [s EXCEPT !.value = msg.value]
  ELSE [s EXCEPT !.errors = getInvalidValue(valid)]

\* the messages of a field with values in Values
ChildMsgs(Values) ==
  {adt("onChange", v) : v \in {None} \cup {Some(x) : x \in Values}}
    \cup {adt("validate", None)}

\* mutant: the validator keeps the start date it had
resetCompletionDate_Stale(st) ==
  [st EXCEPT !.completionDate =
     setValidate(@, @.validate, validateCompletionDate(@.value, @.validate),
                 @.value # None)]

resetCompletionDate(st) ==
  [st EXCEPT !.completionDate =
     setValidate(@, getDate(st.startDate),
                 validateCompletionDate(@.value, getDate(st.startDate)),
                 @.value # None)]

\* the phases a form may be opened with: each capability required full-time,
\* required part-time or not required
RequiredCapabilities ==
  {R \in SUBSET {[capability |-> CAPABILITIES[i], fullTime |-> f]
                   : i \in DOMAIN CAPABILITIES, f \in BOOLEAN} :
     \A x, y \in R : x.capability = y.capability => x = y}

Phases ==
  {[startDate |-> Some(1), completionDate |-> Some(MaxDay), maxBudget |-> Some(1),
    requiredCapabilities |-> R] : R \in RequiredCapabilities}

Params ==
  {[isAccordianOpen |-> TRUE, totalMaxBudget |-> None, phase |-> ph]
     : ph \in {None} \cup {Some(x) : x \in Phases}}

\* lodash find(existingCapabilities, { capability })
find(existingCapabilities, capability) ==
  {x \in existingCapabilities : x.capability = capability}

init(params) ==
  LET existingCapabilities == UNION {ph.requiredCapabilities : ph \in params.phase}
      startDate == UNION {ph.startDate : ph \in params.phase}
  IN [isAccordianOpen |-> params.isAccordianOpen,
      capabilities |->
        [i \in DOMAIN CAPABILITIES |->
           LET found == find(existingCapabilities, CAPABILITIES[i])
           IN [capability |-> CAPABILITIES[i],
               fullTime |-> ((\E x \in found : x.fullTime) \/ TRUE),
               checked |-> (found # {})]],
      startDate |-> [value |-> UNION {dateToValue(ph.startDate) : ph \in params.phase},
                     errors |-> {}],
      completionDate |-> [value |-> UNION {dateToValue(ph.completionDate)
                                             : ph \in params.phase},
                          errors |-> {},
                          validate |-> startDate],
      maxBudget |-> [value |-> UNION {ph.maxBudget : ph \in params.phase},
                     errors |-> {},
                     validate |-> params.totalMaxBudget]]

update(st, msg) ==
  CASE msg.tag = "toggleAccordion" ->
         [st EXCEPT !.isAccordianOpen = ~@]
    [] msg.tag = "toggleCapabilityChecked" ->
         [st EXCEPT !.capabilities =
            [i \in DOMAIN @ |-> IF i - 1 = msg.value
                                THEN [@[i] EXCEPT !.checked = ~@] ELSE @[i]]]
    [] msg.tag = "toggleCapabilityIsFullTime" ->
         [st EXCEPT !.capabilities =
            [i \in DOMAIN @ |-> IF i - 1 = msg.value
                                THEN [@[i] EXCEPT !.fullTime = ~@] ELSE @[i]]]
    [] msg.tag = "startDate" ->
         resetCompletionDate(
           [st EXCEPT !.startDate =
              fieldUpdate(@, msg.value, validateStartDate(@.value))])
    [] msg.tag = "completionDate" ->
         [st EXCEPT !.completionDate =
            fieldUpdate(@, msg.value, validateCompletionDate(@.value, @.validate))]
    [] msg.tag = "maxBudget" ->
         [st EXCEPT !.maxBudget =
            fieldUpdate(@, msg.value, validateMaxBudget(@.value, @.validate))]

\* the body the form submits; none while no budget is entered
getValues(st) ==
  IF st.maxBudget.value = None THEN None
  ELSE Some([startDate |-> st.startDate.value,
             completionDate |-> st.completionDate.value,
             maxBudget |-> st.maxBudget.value,
             requiredCapabilities |->
               [i \in DOMAIN st.capabilities |->
                  [capability |-> st.capabilities[i].capability,
                   fullTime |-> st.capabilities[i].fullTime]]])

\* FormField.isValid
fieldIsValid(s) == s.errors = {}

\* mutant: the capabilities pass whatever is checked
capabilitiesAreValid_Always(capabilities) == TRUE

capabilitiesAreValid(capabilities) ==
  \E i \in DOMAIN capabilities : capabilities[i].checked

isValid(st) ==
  /\ fieldIsValid(st.startDate)
  /\ fieldIsValid(st.completionDate)
  /\ fieldIsValid(st.maxBudget)
  /\ capabilitiesAreValid(st.capabilities)

\* the tables, which the form does not touch
tables == <<clock, nextId, cwuOpportunities, cwuOpportunityVersions, cwuOpportunityStatuses,
            cwuOpportunityAddenda, cwuOpportunityAttachments, files,
            cwuProposals, cwuProposalStatuses, last, pending, sweeps, updates>>

\* the form is opened anew, for a new phase or for an existing one
initPhase(params) ==
  /\ state' = init(params)
  /\ UNCHANGED tables

\* The view dispatches a message and the framework keeps the state that update
\* returns for it.
toggleAccordion ==
  /\ state' = update(state, adt("toggleAccordion", None))
  /\ UNCHANGED tables

toggleCapabilityChecked(index) ==
  /\ state' = update(state, adt("toggleCapabilityChecked", index))
  /\ UNCHANGED tables

\* the full-time switch of a capability is shown only while it is checked
toggleCapabilityIsFullTime(index) ==
  /\ state.capabilities[index + 1].checked
  /\ state' = update(state, adt("toggleCapabilityIsFullTime", index))
  /\ UNCHANGED tables

startDateMsg(value) ==
  /\ state' = update(state, adt("startDate", value))
  /\ UNCHANGED tables

completionDateMsg(value) ==
  /\ state' = update(state, adt("completionDate", value))
  /\ UNCHANGED tables

maxBudgetMsg(value) ==
  /\ state' = update(state, adt("maxBudget", value))
  /\ UNCHANGED tables

(* ---------------------------- specification ---------------------------- *)
Init ==
  /\ clock = 1
  /\ nextId = 1
  /\ cwuOpportunities = {}
  /\ cwuOpportunityVersions = {}
  /\ cwuOpportunityStatuses = {}
  /\ cwuOpportunityAddenda = {}
  /\ cwuOpportunityAttachments = {}
  /\ files = {[id |-> f] : f \in FileIds}
  /\ cwuProposals = {}
  /\ cwuProposalStatuses = {}
  /\ last = Returned("init", 0, Undefined, TRUE, None, 0)
  /\ pending = None
  /\ sweeps = [p \in Sweepers |-> None]
  /\ updates = [p \in Updaters |-> None]
  /\ state = init([isAccordianOpen |-> FALSE, totalMaxBudget |-> None, phase |-> None])

Next ==
  \/ \E session \in Creators, status \in CreateCWUOpportunityStatus,
        proposalDeadline \in Deadlines, attachments \in NoAttachments :
       createCWUOpportunity(session, status, proposalDeadline, attachments)
  \/ \E id \in OppIds, session \in Editors, proposalDeadline \in Deadlines,
        attachments \in NoAttachments :
       updateCWUOpportunityVersion(id, session, proposalDeadline, attachments)
  \/ \E id \in OppIds, status \in StatusInputs, session \in Editors :
       updateCWUOpportunityStatus(id, status, session)
  \/ \E id \in OppIds, session \in Editors :
       addCWUOpportunityAddendum(id, "addendum", session)
  \/ \E id \in OppIds, status \in {ProposalDraft, Submitted} :
       createCWUProposal(id, status)
  \/ \E p \in {x.id : x \in cwuProposals}, status \in {Submitted, Withdrawn, NULL} :
       updateCWUProposalStatus(p, status)
  \/ closeCWUOpportunities

Spec == Init /\ [][Next]_vars

\* The operations of one public servant when a statement or the commit of a
\* write may fail: every write either goes through or fails at one of its
\* failure points.
FailAttachments == {{}, {"f1"}}

NextFail ==
  \/ \E status \in CreateCWUOpportunityStatus, attachments \in FailAttachments :
       createCWUOpportunity("g", status, 2, attachments)
  \/ \E status \in CreateCWUOpportunityStatus, attachments \in FailAttachments :
       \E k \in FailurePoints(createCWUOpportunityStatements(attachments)) :
         createCWUOpportunityFails("g", status, 2, attachments, k)
  \/ \E id \in OppIds, attachments \in FailAttachments :
       updateCWUOpportunityVersion(id, "g", 3, attachments)
  \/ \E id \in OppIds, attachments \in FailAttachments :
       \E k \in FailurePoints(updateCWUOpportunityVersionStatements(attachments)) :
         updateCWUOpportunityVersionFails(id, "g", 3, attachments, k)
  \/ \E id \in OppIds : addCWUOpportunityAddendum(id, "addendum", "g")
  \/ \E id \in OppIds : \E k \in FailurePoints(addCWUOpportunityAddendumStatements) :
       addCWUOpportunityAddendumFails(id, "addendum", "g", k)
  \/ \E id \in OppIds : createCWUProposal(id, Submitted)
  \/ closeCWUOpportunities
  \/ \E k \in 1..(MaxOpps + MaxProposals + 1) : closeCWUOpportunitiesFails(k)

SpecFail == Init /\ [][NextFail]_vars

\* Two scheduled jobs run the sweep while opportunities are published and
\* proposals are submitted.
NextConc ==
  \/ \E proposalDeadline \in Deadlines :
       createCWUOpportunity("g", Published, proposalDeadline, {})
  \/ \E id \in OppIds : createCWUProposal(id, Submitted)
  \/ \E p \in Sweepers : sweepBegin(p)
  \/ \E p \in Sweepers : sweepOne(p)
  \/ \E p \in Sweepers : sweepCommit(p)

SpecConc == Init /\ [][NextConc]_vars

\* Two requests update the status of the opportunities of one public servant
\* while the sweep runs, each request being one call.
NextStatus ==
  \/ createCWUOpportunity("g", Published, 2, {})
  \/ \E p \in Updaters, id \in OppIds, status \in {Suspended, Awarded} :
       updateStatusBegin(p, id, status, "g")
  \/ \E p \in Updaters : updateStatusInsert(p)
  \/ \E p \in Updaters : updateStatusReadBack(p)
  \/ closeCWUOpportunities

SpecStatus == Init /\ [][NextStatus]_vars

\* The messages of the phase form, which may be opened anew at any time.
NextPhase ==
  \/ \E params \in Params : initPhase(params)
  \/ toggleAccordion
  \/ \E i \in Indexes : toggleCapabilityChecked(i)
  \/ \E i \in Indexes : toggleCapabilityIsFullTime(i)
  \/ \E m \in ChildMsgs(Days) : startDateMsg(m)
  \/ \E m \in ChildMsgs(Days) : completionDateMsg(m)
  \/ \E m \in ChildMsgs(Budgets) : maxBudgetMsg(m)

SpecPhase == Init /\ [][NextPhase]_vars

\* The operations on the attachments and addenda of the opportunities of one
\* public servant, with reads that overlap a deletion or the loss of a file.
Readers == {"g"}
\* the attachment lists of a request: none, one file, or both, of the files that
\* are there when the request is made
Attachable == {A \in {{}, {"f2"}, FileIds} : A \subseteq {f.id : f \in files}}

NextAttach ==
  \/ \E attachments \in Attachable : createCWUOpportunity("g", Published, 3, attachments)
  \/ \E id \in OppIds, attachments \in Attachable :
       updateCWUOpportunityVersion(id, "g", 3, attachments)
  \/ \E id \in OppIds : addCWUOpportunityAddendum(id, "addendum", "g")
  \/ \E id \in OppIds \cup {1} : deleteCWUOpportunity(id)
  \/ removeFile("f1")
  \/ \E id \in OppIds, session \in Readers : readOneBegin(id, session)
  \/ readOneEnd

SpecAttach == Init /\ [][NextAttach]_vars

(* ------------------------- vocabulary of the claims -------------------- *)
VersionRowsOf(id) == {v \in cwuOpportunityVersions : v.opportunity = id}
LatestVersionRows(id) ==
  {v \in VersionRowsOf(id) : \A w \in VersionRowsOf(id) : w.createdAt <= v.createdAt}

HistoryRowsOf(id) == {s \in cwuOpportunityStatuses : s.opportunity = id}
StatusRowsOf(id) == {s \in HistoryRowsOf(id) : s.status # NULL}
LatestStatusRows(id) ==
  {s \in StatusRowsOf(id) : \A t \in StatusRowsOf(id) : t.createdAt <= s.createdAt}
CurrentStatuses(id) == {s.status : s \in LatestStatusRows(id)}

CreatorOf(id) == (CHOOSE o \in cwuOpportunities : o.id = id).createdBy

\* the statuses readOneCWUOpportunity may report for an opportunity to a session
StatusRead(id, session) == {r.status : r \in readOneCWUOpportunity(id, session)}

\* the visibility rule of the read path, in the words of the specification
MaySee(id, session) ==
  CASE session = Undefined \/ sessionUserType(session) = Vendor ->
         CurrentStatuses(id) \cap publicOpportunityStatuses # {}
    [] sessionUserType(session) = Government ->
         \/ CurrentStatuses(id) \cap publicOpportunityStatuses # {}
         \/ /\ CurrentStatuses(id) \cap privateOpportunitiesStatuses # {}
            /\ CreatorOf(id) = session
    [] OTHER ->
         CurrentStatuses(id) \cap (publicOpportunityStatuses \cup privateOpportunitiesStatuses) # {}

\* the rule of the listing: as MaySee, and an administrator is shown everything
MayList(id, session) ==
  IF session # Undefined /\ sessionUserType(session) = Admin THEN TRUE ELSE MaySee(id, session)

(* -------------------------------- C1 ----------------------------------- *)
\* C1: whatever was created, edited, re-statused, given addenda or closed, a read
\* of an opportunity by a session that may see it returns the content of a version
\* row with the greatest createdAt and the status of a status-typed history row
\* with the greatest createdAt of that opportunity.
C1_ReadReturnsLatest ==
  \A id \in OppIds : \A session \in Sessions :
    \A r \in readOneCWUOpportunity(id, session) :
      /\ \E v \in LatestVersionRows(id) :
           /\ r.versionId = v.id
           /\ r.updatedAt = v.createdAt
           /\ r.proposalDeadline = v.proposalDeadline
      /\ \E s \in LatestStatusRows(id) : r.status = s.status

\* an edited opportunity with a changed deadline, a later status row and an event
\* row, read by a session that sees it
C1_Witness ==
  \E id \in OppIds :
    /\ Cardinality({v.proposalDeadline : v \in VersionRowsOf(id)}) >= 2
    /\ Cardinality({s.status : s \in StatusRowsOf(id)}) >= 2
    /\ HistoryRowsOf(id) # StatusRowsOf(id)
    /\ readOneCWUOpportunity(id, "g") # {}

(* -------------------------------- C2 ----------------------------------- *)
\* C2: an edit (Edited event row) or an addendum (AddendumAdded event row) leaves
\* the status that a read of the opportunity reports as it was before, for every session.
C2_EventsKeepStatus ==
  [][\A id \in OppIds :
       (last'.op \in {"updateCWUOpportunityVersion", "addCWUOpportunityAddendum"}
          /\ last'.id = id)
       => \A session \in Sessions : StatusRead(id, session)' = StatusRead(id, session)]_vars

\* an opportunity that was edited and then given an addendum, and is visible
C2_Witness ==
  /\ last.op = "addCWUOpportunityAddendum"
  /\ last.ok
  /\ \E s \in HistoryRowsOf(last.id) : s.event = Edited
  /\ \E s \in HistoryRowsOf(last.id) : s.event = AddendumAdded
  /\ StatusRead(last.id, Undefined) # {}

(* -------------------------------- C3 ----------------------------------- *)
\* C3: every entry of the listing carries the status of the opportunity's most
\* recent status-typed history row, also when the most recent row of the log is an
\* event row.
C3_ListingStatusIsCurrent ==
  \A session \in Sessions : \A e \in readManyCWUOpportunities(session) :
    e.status \in CurrentStatuses(e.id)

(* -------------------------------- C4 ----------------------------------- *)
\* C4: a read returns the opportunity exactly when the role rule allows it:
\* anonymous/Vendor for a public current status, Government for a public status
\* or an own private one, Admin for any public or private status; null otherwise.
C4_ReadOneVisibility ==
  \A id \in OppIds : \A session \in Sessions :
    (readOneCWUOpportunity(id, session) # {}) <=> MaySee(id, session)

\* a private opportunity of the administrator (hidden from the public servant) next
\* to a private one of the public servant (shown to its owner, hidden from the vendor)
C4_Witness ==
  \E i, j \in OppIds :
    /\ CreatorOf(i) = "a" /\ CurrentStatuses(i) \subseteq privateOpportunitiesStatuses
    /\ readOneCWUOpportunity(i, "g") = {} /\ readOneCWUOpportunity(i, "a") # {}
    /\ CreatorOf(j) = "g" /\ CurrentStatuses(j) \subseteq privateOpportunitiesStatuses
    /\ readOneCWUOpportunity(j, "g") # {} /\ readOneCWUOpportunity(j, "v") = {}

(* -------------------------------- C5 ----------------------------------- *)
\* C5: the listing shows a session exactly the opportunities the role rule gives
\* it (public ones; plus own private ones for Government; all for Admin), each once,
\* whether or not they were edited or received an addendum.
C5_ListingVisibility ==
  \A session \in Sessions :
    {e.id : e \in readManyCWUOpportunities(session)}
      = {id \in OppIds : MayList(id, session)}

(* -------------------------------- C6 ----------------------------------- *)
\* C6: a read carries the change history and the reporting metrics only for an
\* Admin session or the creator of the opportunity, never for an anonymous session
\* or another user.
C6_HistoryOnlyForOwnerOrAdmin ==
  \A id \in OppIds : \A session \in Sessions :
    \A r \in readOneCWUOpportunity(id, session) :
      (r.history # None \/ r.reporting)
        => /\ session # Undefined
           /\ (sessionUserType(session) = Admin \/ session = CreatorOf(id))

(* -------------------------------- C7 ----------------------------------- *)
\* the change history a read returns lists every history row of the opportunity
\* once, newest first
HistoryNewestFirst ==
  \A id \in OppIds : \A session \in Sessions :
    \A r \in readOneCWUOpportunity(id, session) : \A h \in r.history :
      /\ Len(h) = Cardinality(HistoryRowsOf(id))
      /\ {h[i].id : i \in DOMAIN h} = {s.id : s \in HistoryRowsOf(id)}
      /\ \A i, j \in DOMAIN h : i < j => h[i].createdAt >= h[j].createdAt

\* C7: a successful status update, edit or addendum appends exactly one history
\* row of its kind (status, Edited, AddendumAdded) to the opportunity's log, no step
\* changes or removes an existing history row, and the log an owner or admin reads
\* is ordered newest first.
C7_HistoryAppendOnly ==
  [][/\ \A id \in OppIds :
          (last'.ok /\ last'.id = id /\ last'.op \in {"updateCWUOpportunityStatus",
               "updateCWUOpportunityVersion", "addCWUOpportunityAddendum"})
          => \E row \in cwuOpportunityStatuses' :
               /\ row \notin cwuOpportunityStatuses
               /\ cwuOpportunityStatuses' = cwuOpportunityStatuses \cup {row}
               /\ row.opportunity = id
               /\ CASE last'.op = "updateCWUOpportunityStatus" ->
                         row.status # NULL /\ row.event = NULL
                    [] last'.op = "updateCWUOpportunityVersion" ->
                         row.status = NULL /\ row.event = Edited
                    [] OTHER -> row.status = NULL /\ row.event = AddendumAdded
     /\ cwuOpportunityStatuses \subseteq cwuOpportunityStatuses'
     /\ HistoryNewestFirst']_vars

\* the owner has read back, after a status update, a log of a status row, an
\* event row and the new status row
C7_Witness ==
  /\ last.op = "updateCWUOpportunityStatus"
  /\ last.ok
  /\ \E r \in last.value : \E h \in r.history :
       /\ Len(h) >= 3
       /\ h[1].type[1] = "status"
       /\ h[2].type[1] = "event"

(* -------------------------------- C8 ----------------------------------- *)
\* C8: the version rows of an opportunity change only by successful edits, each
\* of which adds exactly one new row and keeps the others: the number of version
\* rows is 1 plus the number of successful edits.
C8_VersionsCountSuccessfulEdits ==
  [][\A id \in OppIds :
       IF last'.op = "updateCWUOpportunityVersion" /\ last'.id = id /\ last'.ok
       THEN \E v \in cwuOpportunityVersions' :
              /\ v \notin cwuOpportunityVersions
              /\ VersionRowsOf(id)' = VersionRowsOf(id) \cup {v}
       ELSE VersionRowsOf(id)' = VersionRowsOf(id)]_vars

(* -------------------------------- C9 ----------------------------------- *)
\* the opportunities the sweep is to close at the time it starts
LapsedPublished ==
  {id \in OppIds : /\ Published \in CurrentStatuses(id)
                   /\ \E v \in LatestVersionRows(id) : v.proposalDeadline <= clock}

\* C9: the sweep appends one Evaluation row to exactly the opportunities whose
\* current status is Published and whose latest version's deadline is not after
\* now, leaves every other log as it was, returns how many it closed, and none
\* of those reads as Published afterwards.
C9_CloserSelectsLapsedPublished ==
  [][last'.op = "closeCWUOpportunities"
       => /\ \A id \in OppIds :
               IF id \in LapsedPublished
               THEN \E row \in cwuOpportunityStatuses' :
                      /\ row \notin cwuOpportunityStatuses
                      /\ HistoryRowsOf(id)' = HistoryRowsOf(id) \cup {row}
                      /\ row.status = Evaluation
               ELSE HistoryRowsOf(id)' = HistoryRowsOf(id)
          /\ last'.n = Cardinality(LapsedPublished)
          /\ \A id \in LapsedPublished : \A session \in Sessions :
               /\ Published \notin StatusRead(id, session)'
               /\ StatusRead(id, "a")' = {Evaluation}]_vars

\* a sweep closed one opportunity (now in Evaluation) and passed over a Draft
\* one whose deadline has passed as well
C9_Witness ==
  /\ last.op = "closeCWUOpportunities"
  /\ last.n = 1
  /\ \E i, j \in OppIds :
       /\ CurrentStatuses(i) = {Evaluation}
       /\ CurrentStatuses(j) = {Draft}
       /\ \E v \in LatestVersionRows(j) : v.proposalDeadline < clock

(* -------------------------------- C10 ---------------------------------- *)
ProposalStatusRowsOf(p) == {s \in cwuProposalStatuses : s.proposal = p /\ s.status # NULL}
CurrentProposalStatuses(p) ==
  {s.status : s \in {x \in ProposalStatusRowsOf(p) :
                       \A y \in ProposalStatusRowsOf(p) : y.createdAt <= x.createdAt}}

NewHistoryRowsOf(id) == HistoryRowsOf(id)' \ HistoryRowsOf(id)
NewProposalRowsOf(p) ==
  {s \in cwuProposalStatuses' \ cwuProposalStatuses : s.proposal = p}

\* the submitted proposals of an opportunity
SubmittedProposalsOf(id) ==
  {p.id : p \in {x \in cwuProposals : x.opportunity = id
                                        /\ Submitted \in CurrentProposalStatuses(x.id)}}

\* an opportunity's Evaluation row and the UnderReview rows of its submitted
\* proposals are added together or not at all
ClosedTogether(id) ==
  \/ /\ NewHistoryRowsOf(id) = {}
     /\ \A p \in SubmittedProposalsOf(id) : NewProposalRowsOf(p) = {}
  \/ /\ Cardinality(NewHistoryRowsOf(id)) = 1
     /\ \A row \in NewHistoryRowsOf(id) : row.status = Evaluation
     /\ \A p \in SubmittedProposalsOf(id) :
          /\ Cardinality(NewProposalRowsOf(p)) = 1
          /\ \A row \in NewProposalRowsOf(p) : row.status = UnderReview

\* C11 as stated: a sweep adds the Evaluation row of an opportunity and the
\* UnderReview rows of its proposals together or not at all, and when it fails
\* while processing an opportunity, the opportunities the loop had already
\* completed keep their rows.
C11_FailureKeepsProcessed ==
  [][last'.op = "closeCWUOpportunities"
       => /\ \A id \in OppIds : ClosedTogether(id)
          /\ ((~last'.ok /\ last'.n < Cardinality(LapsedPublished)) =>
                Cardinality({id \in OppIds : NewHistoryRowsOf(id) # {}}) = last'.n)]_vars

\* C11, amended: the sweep is one transaction: when it succeeds every lapsed
\* Published opportunity has got its Evaluation row and each of its submitted
\* proposals its UnderReview row; when it fails at any point, no row of the sweep
\* stays, also for the opportunities the loop had already completed.
C11_SweepAllOrNothing ==
  [][last'.op = "closeCWUOpportunities"
       => /\ \A id \in OppIds : ClosedTogether(id)
          /\ IF last'.ok
             THEN \A id \in LapsedPublished : NewHistoryRowsOf(id) # {}
             ELSE /\ cwuOpportunityStatuses' = cwuOpportunityStatuses
                  /\ cwuProposalStatuses' = cwuProposalStatuses]_vars

\* a sweep failed after its loop had completed one opportunity: nothing is
\* closed, both opportunities are still Published and past their deadline
C11_Witness ==
  /\ last.op = "closeCWUOpportunities"
  /\ ~last.ok
  /\ last.n >= 1
  /\ Cardinality({id \in OppIds : CurrentStatuses(id) = {Published}
                     /\ \E v \in LatestVersionRows(id) : v.proposalDeadline < clock}) >= 2

(* -------------------------------- C12 ---------------------------------- *)
\* C12: in every state, every Edited history row has the version row of the
\* same edit, and every version row but the first has its Edited row.
C12_EditAllOrNothing ==
  \A o \in cwuOpportunities :
    /\ \A e \in HistoryRowsOf(o.id) :
         e.event = Edited => \E v \in VersionRowsOf(o.id) : v.createdAt = e.createdAt
    /\ \A v \in VersionRowsOf(o.id) :
         v.createdAt # o.createdAt
           => \E e \in HistoryRowsOf(o.id) : e.event = Edited /\ e.createdAt = v.createdAt

AddendaOf(id) == {a \in cwuOpportunityAddenda : a.opportunity = id}

Resolvable(raw) ==
  /\ \A id \in raw.attachments : \E f \in files : f.id = id
  /\ \A id \in raw.addenda : \E a \in cwuOpportunityAddenda : a.id = id

\* a result carries the record of every id of the raw result, and nothing else
Complete(r, raw) ==
  /\ r.attachments \subseteq files
  /\ {f.id : f \in r.attachments} = raw.attachments
  /\ r.addenda \subseteq cwuOpportunityAddenda
  /\ {a.id : a \in r.addenda} = raw.addenda

\* C14: a read that has queried the ids of the attachments of the latest version
\* and of the addenda ends invalid, with no opportunity at all, when one of them
\* does not resolve to a record; when all resolve it returns the opportunity
\* with exactly one record per id.  The same holds of a read taken in one step.
C14_ReadFailsAsAWhole ==
  [][/\ \A p \in pending :
          pending' = None
          => /\ last'.op = "readOneCWUOpportunity"
             /\ IF Resolvable(p.raw)
                THEN /\ last'.ok
                     /\ Cardinality(last'.value) = 1
                     /\ \A r \in last'.value : Complete(r, p.raw)
                ELSE ~last'.ok /\ last'.value = None
     /\ \A o \in cwuOpportunities : \A session \in Readers :
          LET raws == readOneRaw(o.id, session)
              value == readOneCWUOpportunity(o.id, session)
          IN IF \A raw \in raws : Resolvable(raw)
             THEN /\ ~readOneInvalid(o.id, session)
                  /\ Cardinality(value) = Cardinality(raws)
                  /\ \A r \in value : \E raw \in raws : Complete(r, raw)
             ELSE readOneInvalid(o.id, session) /\ value = {}]_vars

\* a read ended invalid because a file linked to the latest version is missing,
\* though the other linked file and the addendum are there
C14_Witness ==
  /\ last.op = "readOneCWUOpportunity"
  /\ ~last.ok
  /\ \E v \in LatestVersionRows(last.id) :
       /\ attachmentIds(cwuOpportunityAttachments, v.id) = FileIds
       /\ \E f \in FileIds : readOneFileById(files, f) = {}
       /\ \E f \in FileIds : readOneFileById(files, f) # {}

(* -------------------------------- C15 ---------------------------------- *)
LinksOf(versionId) == {l \in cwuOpportunityAttachments : l.opportunityVersion = versionId}

\* C15: a read returns exactly the files linked to the latest version row; the
\* read that ends a successful edit with attachment list A returns exactly A
\* (none when A is empty), and the edit adds the links of the new version only:
\* the links of the older versions stay as they are and are not returned.
C15_AttachmentsPerVersion ==
  [][/\ \A o \in cwuOpportunities : \A session \in Readers :
          \A r \in readOneCWUOpportunity(o.id, session) :
            \E v \in LatestVersionRows(o.id) :
              {f.id : f \in r.attachments} = {l.file : l \in LinksOf(v.id)}
     /\ \A id \in OppIds, attachments \in SUBSET FileIds :
          (/\ last'.op = "updateCWUOpportunityVersion"
           /\ last'.id = id
           /\ \E session \in Users, proposalDeadline \in Deadlines :
                updateCWUOpportunityVersion(id, session, proposalDeadline, attachments))
          => /\ \A r \in last'.value : {f.id : f \in r.attachments} = attachments
             /\ cwuOpportunityAttachments \subseteq cwuOpportunityAttachments'
             /\ \A v \in cwuOpportunityVersions : LinksOf(v.id)' = LinksOf(v.id)
             /\ \E v \in cwuOpportunityVersions' \ cwuOpportunityVersions :
                  /\ cwuOpportunityAttachments' \ cwuOpportunityAttachments = LinksOf(v.id)'
                  /\ {l.file : l \in LinksOf(v.id)'} = attachments]_vars

\* an opportunity created with two attachments was edited with one, and the read
\* that ended the edit returned that one; the two links of the first version remain
C15_Witness ==
  /\ last.op = "updateCWUOpportunityVersion"
  /\ last.ok
  /\ \E r \in last.value : {f.id : f \in r.attachments} = {"f2"}
  /\ \E v \in VersionRowsOf(last.id) :
       /\ v \notin LatestVersionRows(last.id)
       /\ {l.file : l \in LinksOf(v.id)} = FileIds

(* -------------------------------- C16 ---------------------------------- *)
\* C16: an edit, a status update, an addendum or a sweep leaves every root row
\* as it was created, and whoever reads an opportunity afterwards is given the
\* id and createdAt of its root row, and its creator as createdBy whenever that
\* field is shown, whoever edited it since.
C16_RootNeverMutated ==
  [][/\ (last'.op \in {"updateCWUOpportunityVersion", "updateCWUOpportunityStatus",
                       "addCWUOpportunityAddendum", "closeCWUOpportunities"}
          => cwuOpportunities' = cwuOpportunities)
     /\ cwuOpportunities \subseteq cwuOpportunities'
     /\ \A o \in cwuOpportunities' : \A session \in Sessions :
          \A r \in readOneCWUOpportunity(o.id, session)' :
            /\ r.id = o.id
            /\ r.createdAt = o.createdAt
            /\ r.createdBy \in {o.createdBy, Undefined}
            /\ (session = "a" => r.createdBy = o.createdBy)]_vars

\* the administrator's opportunity, edited later by the public servant, still
\* reads as created by the administrator at the time of creation
C16_Witness ==
  /\ last.op = "updateCWUOpportunityVersion"
  /\ last.ok
  /\ CreatorOf(last.id) = "a"
  /\ \E r \in readOneCWUOpportunity(last.id, "a") :
       /\ r.createdBy = "a"
       /\ r.updatedBy = "g"
       /\ r.createdAt < r.updatedAt

(* -------------------------------- C17 ---------------------------------- *)
\* the sessions that are shown who created and who last edited an opportunity
MaySeeAuthors(id, session) ==
  /\ session # Undefined
  /\ \/ sessionUserType(session) = Admin
     \/ session = CreatorOf(id)
     \/ \E v \in LatestVersionRows(id) : v.createdBy = session

\* C17: a read or a listing entry of an opportunity gives createdBy and updatedBy
\* to nobody but an Admin, the creator and the author of the latest version;
\* an anonymous session and every other user get both fields absent.
C17_AuthorsOnlyForAdminOrAuthor ==
  \A session \in Sessions :
    /\ \A id \in OppIds : \A r \in readOneCWUOpportunity(id, session) :
         MaySeeAuthors(id, session) \/ (r.createdBy = Undefined /\ r.updatedBy = Undefined)
    /\ \A e \in readManyCWUOpportunities(session) :
         MaySeeAuthors(e.id, session) \/ (e.createdBy = Undefined /\ e.updatedBy = Undefined)

\* a public opportunity of the administrator whose latest version is the public
\* servant's: the public servant is shown both authors, the vendor and the
\* anonymous reader neither, in the read and in the listing
C17_Witness ==
  \E id \in OppIds :
    /\ CreatorOf(id) = "a"
    /\ \E r \in readOneCWUOpportunity(id, "g") : r.createdBy = "a" /\ r.updatedBy = "g"
    /\ \E r \in readOneCWUOpportunity(id, "v") :
         r.createdBy = Undefined /\ r.updatedBy = Undefined
    /\ \E r \in readOneCWUOpportunity(id, Undefined) : r.createdBy = Undefined
    /\ \E e \in readManyCWUOpportunities("v") : e.id = id /\ e.createdBy = Undefined
    /\ \E e \in readManyCWUOpportunities("g") : e.id = id /\ e.createdBy = "a"

(* -------------------------------- C19 ---------------------------------- *)
\* C19: whatever sweeps overlap, no opportunity has more than one Evaluation
\* row and no proposal more than one UnderReview row.
C19_ClosedOnce ==
  /\ \A id \in OppIds :
       Cardinality({s \in HistoryRowsOf(id) : s.status = Evaluation}) <= 1
  /\ \A p \in cwuProposals :
       Cardinality({s \in ProposalStatusRowsOf(p.id) : s.status = UnderReview}) <= 1

(* -------------------------------- C20 ---------------------------------- *)
\* the opportunities a sweep closed at time t
ClosedAt(t) ==
  {s.opportunity : s \in {x \in cwuOpportunityStatuses :
                             x.status = Evaluation /\ x.createdBy = NULL /\ x.createdAt = t}}

\* C20 as stated: a sweep that runs right after a sweep inserts no row and
\* returns 0.
C20_SecondSweepInsertsNothing ==
  [][(last.op = "closeCWUOpportunities" /\ last'.op = "closeCWUOpportunities")
       => /\ cwuOpportunityStatuses' = cwuOpportunityStatuses
          /\ cwuProposalStatuses' = cwuProposalStatuses
          /\ last'.n = 0]_vars

\* C20, amended: a sweep that runs right after a sweep adds no row to any
\* opportunity the first one closed nor to its proposals; it closes exactly the
\* Published opportunities whose deadline has passed since the first sweep read
\* the clock, and returns their number, 0 when there is none.
C20_SecondSweepIdempotentOnClosed ==
  [][(last.op = "closeCWUOpportunities" /\ last'.op = "closeCWUOpportunities")
       => LET first == clock - 1
              since == {id \in OppIds :
                          /\ Published \in CurrentStatuses(id)
                          /\ \E v \in LatestVersionRows(id) :
                               first < v.proposalDeadline /\ v.proposalDeadline <= clock}
          IN /\ \A id \in ClosedAt(first) :
                  /\ id \notin since
                  /\ HistoryRowsOf(id)' = HistoryRowsOf(id)
                  /\ \A p \in cwuProposals : p.opportunity = id =>
                       \A s \in cwuProposalStatuses' \ cwuProposalStatuses : s.proposal # p.id
             /\ \A id \in OppIds \ since : HistoryRowsOf(id)' = HistoryRowsOf(id)
             /\ \A id \in since : HistoryRowsOf(id)' # HistoryRowsOf(id)
             /\ last'.n = Cardinality(since)
             /\ (since = {} => /\ cwuOpportunityStatuses' = cwuOpportunityStatuses
                               /\ cwuProposalStatuses' = cwuProposalStatuses)]_vars

\* a sweep closed an opportunity and the sweep right after it found nothing to do
C20_Witness ==
  /\ last.op = "closeCWUOpportunities"
  /\ last.n = 0
  /\ ClosedAt(clock - 2) # {}
  /\ ClosedAt(clock - 1) = {}

(* -------------------------------- C23 ---------------------------------- *)
\* the createdAt values of the Published rows of an opportunity
PublishedTimes(id) == {s.createdAt : s \in {x \in StatusRowsOf(id) : x.status = Published}}

\* the publishedAt values a session may read for an opportunity
PublishedAtRead(id, session) == {r.publishedAt : r \in readOneRaw(id, session)}

\* C23: the publishedAt of every opportunity a call returns is the createdAt of
\* the earliest Published row of the opportunity, absent when there is none; and
\* once a read shows a publishedAt, every read after any further operation
\* shows the same one.
C23_PublishedAtIsFirstPublication ==
  [][/\ (last'.ok /\ last'.op \in {"createCWUOpportunity", "updateCWUOpportunityVersion",
                                    "updateCWUOpportunityStatus", "addCWUOpportunityAddendum"})
        => \A r \in last'.value, id \in {o.id : o \in cwuOpportunities'} :
             id = last'.id =>
               IF PublishedTimes(id)' = {} THEN r.publishedAt = None
               ELSE /\ r.publishedAt # None
                    /\ \A t \in r.publishedAt :
                         t \in PublishedTimes(id)' /\ \A u \in PublishedTimes(id)' : t <= u
     /\ \A id \in OppIds, session \in Sessions :
          \A before \in PublishedAtRead(id, session) :
            before # None => \A after \in PublishedAtRead(id, session)' : after = before]_vars

\* a re-publication was returned: the opportunity has Published rows of two
\* instants and the call that added the second returned the earlier instant
C23_Witness ==
  /\ last.op = "updateCWUOpportunityStatus" /\ last.ok
  /\ Cardinality(PublishedTimes(last.id)) = 2
  /\ \E r \in last.value : \E t \in r.publishedAt :
       /\ \E u \in PublishedTimes(last.id) : t < u
       /\ r.status = Published

(* -------------------------------- C22 ---------------------------------- *)
\* C22: a call of updateCWUOpportunityStatus that returns an invalid result
\* leaves the history log as it was: no status row is added by the failed call.
C22_FailedStatusUpdateAddsNothing ==
  [][(last'.op = "updateCWUOpportunityStatus" /\ ~last'.ok /\ clock' # clock)
       => cwuOpportunityStatuses' = cwuOpportunityStatuses]_vars

(* -------------------------------- C24 ---------------------------------- *)
\* the entries of an opportunity in the listing of a session
ListedAs(id, session) == {e \in readManyCWUOpportunities(session) : e.id = id}

\* C24: deleteCWUOpportunity(id) succeeds exactly when the opportunity exists.
\* After a successful call every session reads null for id and no listing has
\* id, while the version rows, the history rows and the listing entries of
\* every other opportunity are as before; a call for an id that does not
\* exist returns an error and changes no table.
C24_DeleteRemovesOnlyThatOpportunity ==
  [][\A id \in OppIds \cup {1} :
       deleteCWUOpportunity(id) =>
         IF id \in OppIds
         THEN /\ last'.ok
              /\ \A session \in Sessions :
                   /\ readOneCWUOpportunity(id, session)' = {}
                   /\ ~readOneInvalid(id, session)'
                   /\ ListedAs(id, session)' = {}
              /\ \A other \in OppIds \ {id} :
                   /\ VersionRowsOf(other)' = VersionRowsOf(other)
                   /\ HistoryRowsOf(other)' = HistoryRowsOf(other)
                   /\ \A session \in Sessions :
                        ListedAs(other, session)' = ListedAs(other, session)
         ELSE /\ ~last'.ok
              /\ UNCHANGED <<cwuOpportunities, cwuOpportunityVersions, cwuOpportunityStatuses,
                             cwuOpportunityAddenda, cwuOpportunityAttachments, files,
                             cwuProposals, cwuProposalStatuses>>]_vars

\* an opportunity was deleted while another one, with its listing entry, stayed
C24_Witness ==
  /\ last.op = "deleteCWUOpportunity" /\ last.ok
  /\ last.id \notin OppIds
  /\ readOneCWUOpportunity(last.id, "g") = {}
  /\ \E other \in OppIds :
       /\ VersionRowsOf(other) # {}
       /\ ListedAs(other, "g") # {}

(* -------------------------------- C21 ---------------------------------- *)
\* C21: the opportunity a successful updateCWUOpportunityStatus(id, s, ...)
\* returns has status s, whatever other status updates and sweeps run between
\* its steps or take their timestamp in the same instant.
C21_ReturnedStatusIsRequested ==
  \A p \in Updaters : \A u \in updates[p] :
    (u.pc = "done" /\ u.ok) => \A r \in u.value : r.status = u.status

(* -------------------------------- C25 ---------------------------------- *)
\* the capabilities that are checked, as the form would submit them
Selected(st) ==
  {[capability |-> st.capabilities[i].capability, fullTime |-> st.capabilities[i].fullTime]
     : i \in {j \in DOMAIN st.capabilities : st.capabilities[j].checked}}

\* C25: whenever getValues returns a body, its requiredCapabilities are exactly
\* the checked capabilities, each with its current fullTime flag; an unchecked
\* capability is not submitted.
C25_SubmitsCheckedCapabilities ==
  \A v \in getValues(state) :
    {v.requiredCapabilities[i] : i \in DOMAIN v.requiredCapabilities} = Selected(state)

(* -------------------------------- C26 ---------------------------------- *)
\* C26: init gives every capability of phase.requiredCapabilities checked = true
\* and the fullTime value stored for it, and every other capability checked =
\* false.
C26_InitRoundTrips ==
  [][\A params \in Params :
       initPhase(params) =>
         \A ph \in params.phase, i \in DOMAIN CAPABILITIES :
           LET stored == {x \in ph.requiredCapabilities : x.capability = CAPABILITIES[i]}
           IN IF stored = {}
              THEN ~state'.capabilities[i].checked
              ELSE /\ state'.capabilities[i].checked
                   /\ \A x \in stored : state'.capabilities[i].fullTime = x.fullTime]_vars

Checked(st) == {i \in DOMAIN st.capabilities : st.capabilities[i].checked}

\* the three fields are without errors
FieldsValid(st) ==
  st.startDate.errors = {} /\ st.completionDate.errors = {} /\ st.maxBudget.errors = {}

\* C28: isValid is true only if a capability is checked and the three fields
\* are valid; toggleCapabilityChecked with index i flips checked of capability i
\* and changes nothing else; and from a valid state it makes isValid false
\* exactly when capability i was the only checked one.
C28_ValidNeedsACapability ==
  [][/\ isValid(state') => (Checked(state') # {} /\ FieldsValid(state'))
     /\ \A i \in Indexes :
          toggleCapabilityChecked(i) =>
            /\ state'.capabilities[i + 1].checked = ~state.capabilities[i + 1].checked
            /\ \A j \in DOMAIN state.capabilities :
                 /\ j # i + 1 => state'.capabilities[j] = state.capabilities[j]
                 /\ state'.capabilities[j].fullTime = state.capabilities[j].fullTime
                 /\ state'.capabilities[j].capability = state.capabilities[j].capability
            /\ state'.startDate = state.startDate
            /\ state'.completionDate = state.completionDate
            /\ state'.maxBudget = state.maxBudget
            /\ state'.isAccordianOpen = state.isAccordianOpen
            /\ isValid(state) => (~isValid(state') <=> Checked(state) = {i + 1})]_vars

\* the fields are valid and a budget is entered, but the only capability that
\* was checked, and set to part-time meanwhile, has been unchecked
C28_Witness ==
  /\ FieldsValid(state)
  /\ state.maxBudget.value # None
  /\ Checked(state) = {}
  /\ ~isValid(state)
  /\ Cardinality({i \in DOMAIN state.capabilities : ~state.capabilities[i].fullTime}) = 1

====
